---- MODULE Spec2Model ----
(***************************************************************************)
(* Model of src/train.py: the training / validation driver of the          *)
(* Mini_Xception emotion classifier.  The state machine follows the        *)
(* control flow of parse_args, main, train_one_epoch and validate; the     *)
(* numerical collaborators (network, loss, optimizer, metrics) are         *)
(* abstracted to small integer arithmetic.                                 *)
(*                                                                         *)
(* Floats: a loss is an integer number of 1/LossScale; a rounded metric is *)
(* an integer number of thousandths; NaN is the sentinel -1.               *)
(***************************************************************************)
EXTENDS Integers, Sequences, FiniteSets, TLC

\* ------------------------------------------------------------- bounds
MaxEpochs == 3
MaxSaveFreq == 2
MaxCkptEpoch == 1
MaxBatches == 2
MaxRuns == 2

\* ------------------------------------------------------- value spaces
NaN == 0 - 1
LossScale == 10000

\* Two clean images and one whose pixels are not finite; two classes; two
\* finite parameter values.
BadImage == 1 + 1
Images == 0..BadImage
Labels == 0..1
FiniteParams == 0..1
NumParams == Cardinality(FiniteParams)
NumClasses == Cardinality(Labels)
Batches == [image : Images, label : Labels]
Splits == {"train", "val", "test"}
ModeChoices == {"val", "test"}
Modes == ModeChoices \cup {"train"}

RECURSIVE SeqsUpTo(_, _)
SeqsUpTo(S, n) ==
    IF n = 0 THEN {<<>>}
    ELSE LET shorter == SeqsUpTo(S, n - 1)
         IN  shorter \cup {Append(s, x) : s \in {t \in shorter : Len(t) = n - 1}, x \in S}

BatchSeqs == SeqsUpTo(Batches, MaxBatches) \ {<<>>}

\* ------------------------------------------------- numeric collaborators
Abs(x) == IF x < 0 THEN 0 - x ELSE x

\* Python's % : the result takes the sign of the divisor.
PyMod(a, n) == IF n > 0 THEN a % n ELSE 0 - ((0 - a) % (0 - n))

RECURSIVE SumSeq(_)
SumSeq(s) == IF s = <<>> THEN 0 ELSE Head(s) + SumSeq(Tail(s))

HasNaN(s) == \E i \in 1..Len(s) : s[i] = NaN

\* round(num/den, 3) in thousandths, ties to even; NaN propagates.
Round3(num, den) ==
    IF num = NaN THEN NaN
    ELSE LET q == (1000 * num) \div den
             r == (1000 * num) % den
         IN  IF 2 * r < den THEN q
             ELSE IF 2 * r > den THEN q + 1
             ELSE IF q % 2 = 0 THEN q ELSE q + 1

\* Mutant of MeanRound3: the mean is cut to three decimals instead of rounded.
MeanRound3_Truncates(ls) ==
    IF HasNaN(ls) THEN NaN ELSE (1000 * SumSeq(ls)) \div (Len(ls) * LossScale)

\* round(np.mean(losses).item(), 3)
MeanRound3(ls) ==
    IF HasNaN(ls) THEN NaN ELSE Round3(SumSeq(ls), Len(ls) * LossScale)

\* model(images) followed by squeeze: one score per batch.
Forward(p, image) ==
    IF p = NaN \/ image = BadImage THEN NaN ELSE (p + image) % (NumParams + 1)

\* torch.max(emotions, axis=1): the predicted class (index 0 for NaN scores).
Argmax(score) == IF score = NaN THEN 0 ELSE score % NumClasses

\* nn.CrossEntropyLoss: small when the prediction is right.
Criterion(score, label) ==
    IF score = NaN THEN NaN
    ELSE IF Argmax(score) = label THEN 625 ELSE 625 * (2 + score)

\* loss.backward(): gradients accumulate into .grad
Backward(g, l, b) ==
    IF g = NaN \/ l = NaN THEN NaN ELSE (g + 1 + b.image + b.label) % NumParams

\* optimizer.step(): the parameters move by the accumulated gradient.
OptimizerStep(p, g) ==
    IF p = NaN \/ g = NaN THEN NaN ELSE (p + g) % NumParams

\* accuracy_score: the fraction of exact matches.
AccuracyScore(labels, preds) ==
    <<Cardinality({i \in 1..Len(labels) : labels[i] = preds[i]}), Len(labels)>>

Present(labels, preds) ==
    {labels[i] : i \in 1..Len(labels)} \cup {preds[i] : i \in 1..Len(preds)}

\* Sum over classes of hits(c)/total(c) as a fraction <<num, den>>; 0 when total(c) = 0.
RECURSIVE SumFrac(_, _, _)
SumFrac(cs, hits, total) ==
    IF cs = {} THEN <<0, 1>>
    ELSE LET c == CHOOSE x \in cs : \A y \in cs : x <= y
             rest == SumFrac(cs \ {c}, hits, total)
         IN  IF total[c] = 0 THEN rest
             ELSE <<rest[1] * total[c] + hits[c] * rest[2], rest[2] * total[c]>>

\* precision_score(average='macro')
PrecisionScore(labels, preds) ==
    LET cs == Present(labels, preds)
        tp == [c \in cs |-> Cardinality({i \in 1..Len(labels) : labels[i] = c /\ preds[i] = c})]
        pp == [c \in cs |-> Cardinality({i \in 1..Len(preds) : preds[i] = c})]
        f == SumFrac(cs, tp, pp)
    IN  <<f[1], f[2] * Cardinality(cs)>>

\* recall_score(average='macro')
RecallScore(labels, preds) ==
    LET cs == Present(labels, preds)
        tp == [c \in cs |-> Cardinality({i \in 1..Len(labels) : labels[i] = c /\ preds[i] = c})]
        ap == [c \in cs |-> Cardinality({i \in 1..Len(labels) : labels[i] = c})]
        f == SumFrac(cs, tp, ap)
    IN  <<f[1], f[2] * Cardinality(cs)>>

\* confusion_matrix(normalize='true'): entry <<count, row total>>, <<0, 1>> for an empty row.
ConfusionMatrix(labels, preds) ==
    LET cs == Present(labels, preds)
        n(l, p) == Cardinality({i \in 1..Len(labels) : labels[i] = l /\ preds[i] = p})
        row(l) == Cardinality({i \in 1..Len(labels) : labels[i] = l})
    IN  [l \in cs |-> [p \in cs |-> IF row(l) = 0 THEN <<0, 1>> ELSE <<n(l, p), row(l)>>]]

\* ---------------------------------------------------------------- state
VARIABLES
    args,             \* the parsed command line (module level, line 51)
    dataset,          \* split -> the batch sequence its data provider yields
    disk,             \* checkpoint files: epoch in the file name -> stored record
    runs,             \* number of process starts so far
    pc,               \* position in parse_args / main / train_one_epoch / validate
    params,           \* mini_xception's learnable parameters
    training,         \* model.train() / model.eval() flag
    grad,             \* accumulated gradient (.grad of the parameters)
    start_epoch,
    range_next,       \* the next value of range(start_epoch, args.epochs)
    epoch,            \* the loop variable of main (validate is called with 0 in evaluation)
    test_dataloader,  \* [split, batches] main validates on
    idx,              \* batches already drawn from the loop's dataloader
    batch,            \* the (images, labels) pair in hand
    emotions,
    loss,
    losses,
    train_loss,
    total_pred,
    total_labels,
    conf_matrix,      \* <<>> until validate computes it, then <<matrix>>
    val,              \* what validate returned
    metrics,          \* main's rounded copy (line 103)
    log,              \* logging.info records of main
    writer,           \* add_scalar calls: [tag, value, step]
    visualized,       \* matrices passed to visualize_confusion_matrix
    saved,            \* torch.save calls of this run, in order
    entry_params,     \* history: the parameters when the current loop function was entered
    ops,              \* history: steps of the current train_one_epoch call
    trace             \* history: phases of this run of main

vars == <<args, dataset, disk, runs, pc, params, training, grad, start_epoch, range_next, epoch,
          test_dataloader, idx, batch, emotions, loss, losses, train_loss, total_pred,
          total_labels, conf_matrix, val, metrics, log, writer, visualized, saved,
          entry_params, ops, trace>>

loopVars == <<idx, batch, emotions, loss, losses>>
histVars == <<entry_params, ops>>
trainVars == <<grad, train_loss, histVars>>
valVars == <<total_pred, total_labels, conf_matrix, val, visualized>>
reportVars == <<metrics, log, writer, saved>>
inputVars == <<args, dataset, runs>>
modelVars == <<params, training>>
mainVars == <<start_epoch, range_next, epoch, test_dataloader>>

NoBatch == [image |-> 0, label |-> 0]
NoMetrics == [val_loss |-> 0, accuracy |-> 0, percision |-> 0, recall |-> 0]

ArgSets ==
    [epochs : 0..MaxEpochs, savefreq : (0 - MaxSaveFreq)..MaxSaveFreq,
     resume : BOOLEAN, evaluate : BOOLEAN, mode : Modes, pretrained : 0..MaxCkptEpoch]

\* One fixed data set, used while the command line varies.
FixedData ==
    [s \in Splits |->
        IF s = "train" THEN <<[image |-> 0, label |-> 0], [image |-> 1, label |-> 1]>>
        ELSE IF s = "val" THEN <<[image |-> 1, label |-> 0]>>
        ELSE <<[image |-> 0, label |-> 1], [image |-> 1, label |-> 1]>>]

\* Data sets that vary, used under a narrow command line.
DataSets ==
    {[s \in Splits |-> IF s = "train" THEN t ELSE IF s = "val" THEN <<v>> ELSE <<v, v>>] :
        t \in BatchSeqs, v \in Batches}

\* Checkpoint files found on disk at the first start: none, or one file (whose
\* name need not agree with the epoch stored in it).
Disks ==
    {<<>>} \cup {(n :> [mini_xception |-> p, epoch |-> e]) :
                    n \in 0..MaxCkptEpoch, e \in 0..MaxCkptEpoch, p \in FiniteParams}

ProcessStart ==
    /\ pc = "parse_args"
    /\ params = 0 /\ training = TRUE /\ grad = 0
    /\ start_epoch = 0 /\ range_next = 0 /\ epoch = 0
    /\ test_dataloader = [split |-> "val", batches |-> <<>>]
    /\ idx = 0 /\ batch = NoBatch /\ emotions = 0 /\ loss = 0 /\ losses = <<>>
    /\ train_loss = 0
    /\ total_pred = <<>> /\ total_labels = <<>> /\ conf_matrix = <<>>
    /\ val = NoMetrics /\ metrics = NoMetrics
    /\ log = <<>> /\ writer = <<>> /\ visualized = <<>> /\ saved = <<>>
    /\ entry_params = 0 /\ ops = <<>> /\ trace = <<>>

\* Every command line over the fixed data set.
InitArgs ==
    /\ args \in ArgSets
    /\ dataset = FixedData
    /\ disk \in Disks
    /\ runs = 1
    /\ ProcessStart

\* Every data set under a one-epoch command line, over one checkpoint file.
InitData ==
    /\ args \in {a \in ArgSets : a.epochs = 1 /\ a.savefreq = 1 /\ ~a.resume
                                  /\ a.mode = "val" /\ a.pretrained = 0}
    /\ dataset \in DataSets
    /\ disk \in {(0 :> [mini_xception |-> p, epoch |-> 0]) : p \in FiniteParams}
    /\ runs = 1
    /\ ProcessStart

Init == InitArgs \/ InitData

Event(name, e) == [ev |-> name, epoch |-> e]

\* ------------------------------------------------------------ parse_args
\* Mutant of ChoiceOK: --mode declared without choices.
ChoiceOK_Any(mode) == TRUE

\* Line 45: choices=['val','test']
ChoiceOK(mode) == mode \in ModeChoices

\* argparse rejects a --mode outside choices with a usage error (exit status 2).
ParseArgs ==
    /\ pc = "parse_args"
    /\ pc' = IF ChoiceOK(args.mode) THEN "main" ELSE "usage_error"
    /\ UNCHANGED <<inputVars, disk, modelVars, mainVars, loopVars, trainVars, valVars,
                   reportVars, trace>>

\* ------------------------------------------------------------------ main
\* Lines 62-67: data providers, start_epoch and a freshly initialised network.
MainStart ==
    /\ pc = "main"
    /\ test_dataloader' = [split |-> "val", batches |-> dataset["val"]]
    /\ start_epoch' = 0
    /\ \E p \in FiniteParams : params' = p
    /\ pc' = "load"
    /\ UNCHANGED <<inputVars, disk, training, range_next, epoch, loopVars, trainVars,
                   valVars, reportVars, trace>>

\* Mutant of ResumeEpoch: the stored epoch is run again.
ResumeEpoch_Same(checkpoint) == checkpoint.epoch

\* Line 72: start_epoch = checkpoint['epoch'] + 1
ResumeEpoch(checkpoint) == checkpoint.epoch + 1

\* Lines 69-77: torch.load fails on a missing file; otherwise the stored
\* parameters replace the fresh ones and start_epoch is the stored epoch + 1.
LoadWeights ==
    /\ pc = "load"
    /\ IF args.resume \/ args.evaluate
       THEN IF args.pretrained \in DOMAIN disk
            THEN /\ params' = disk[args.pretrained].mini_xception
                 /\ start_epoch' = ResumeEpoch(disk[args.pretrained])
                 /\ trace' = Append(trace, Event("load", disk[args.pretrained].epoch))
                 /\ pc' = "mode"
            ELSE /\ pc' = "load_error"
                 /\ UNCHANGED <<params, start_epoch, trace>>
       ELSE /\ pc' = "mode"
            /\ UNCHANGED <<params, start_epoch, trace>>
    /\ UNCHANGED <<inputVars, disk, training, range_next, epoch, test_dataloader,
                   loopVars, trainVars, valVars, reportVars>>

\* Lines 80-85: the split evaluation runs on.
SelectSplit(mode) ==
    IF mode = "test" THEN "test" ELSE IF mode = "val" THEN "val" ELSE "train"

\* Lines 79-87: evaluation only; validate is called with epoch 0.
EvaluateBranch ==
    /\ pc = "mode"
    /\ args.evaluate
    /\ test_dataloader' = [split |-> SelectSplit(args.mode),
                           batches |-> dataset[SelectSplit(args.mode)]]
    /\ epoch' = 0
    /\ pc' = "v_enter"
    /\ UNCHANGED <<inputVars, disk, modelVars, start_epoch, range_next, loopVars,
                   trainVars, valVars, reportVars, trace>>

\* Lines 95-98: the optimizer is built and the epoch range is opened.
TrainBranch ==
    /\ pc = "mode"
    /\ ~args.evaluate
    /\ range_next' = start_epoch
    /\ pc' = "for"
    /\ UNCHANGED <<inputVars, disk, modelVars, start_epoch, epoch, test_dataloader,
                   loopVars, trainVars, valVars, reportVars, trace>>

\* Line 98: for epoch in range(start_epoch, args.epochs)
ForNext ==
    /\ pc = "for"
    /\ IF range_next < args.epochs
       THEN /\ epoch' = range_next
            /\ range_next' = range_next + 1
            /\ pc' = "t_enter"
       ELSE /\ pc' = "close"
            /\ UNCHANGED <<epoch, range_next>>
    /\ UNCHANGED <<inputVars, disk, modelVars, start_epoch, test_dataloader, loopVars,
                   trainVars, valVars, reportVars, trace>>

\* ------------------------------------------------------- train_one_epoch
TrainEnter ==
    /\ pc = "t_enter"
    /\ training' = TRUE
    /\ losses' = <<>>
    /\ idx' = 0
    /\ ops' = <<>>
    /\ entry_params' = params
    /\ trace' = Append(trace, Event("train_begin", epoch))
    /\ pc' = "t_iter"
    /\ UNCHANGED <<inputVars, disk, params, mainVars, batch, emotions, loss, grad,
                   train_loss, valVars, reportVars>>

\* Line 131: the next batch of the training provider, or the end of the loop.
TrainIter ==
    /\ pc = "t_iter"
    /\ IF idx < Len(dataset["train"])
       THEN /\ batch' = dataset["train"][idx + 1]
            /\ idx' = idx + 1
            /\ ops' = Append(ops, <<"batch", idx + 1>>)
            /\ pc' = "t_forward"
       ELSE /\ pc' = "t_return"
            /\ UNCHANGED <<batch, idx, ops>>
    /\ UNCHANGED <<inputVars, disk, modelVars, mainVars, emotions, loss, losses, grad,
                   train_loss, entry_params, valVars, reportVars, trace>>

\* Lines 133-139
TrainForward ==
    /\ pc = "t_forward"
    /\ emotions' = Forward(params, batch.image)
    /\ ops' = Append(ops, <<"forward", idx>>)
    /\ pc' = "t_loss"
    /\ UNCHANGED <<inputVars, disk, modelVars, mainVars, idx, batch, loss, losses, grad,
                   train_loss, entry_params, valVars, reportVars, trace>>

\* Lines 141-143
TrainLoss ==
    /\ pc = "t_loss"
    /\ loss' = Criterion(emotions, batch.label)
    /\ losses' = Append(losses, loss')
    /\ ops' = Append(ops, <<"loss", idx>>)
    /\ pc' = "t_zero_grad"
    /\ UNCHANGED <<inputVars, disk, modelVars, mainVars, idx, batch, emotions, grad,
                   train_loss, entry_params, valVars, reportVars, trace>>

\* Line 145
TrainZeroGrad ==
    /\ pc = "t_zero_grad"
    /\ grad' = 0
    /\ ops' = Append(ops, <<"zero_grad", idx>>)
    /\ pc' = "t_backward"
    /\ UNCHANGED <<inputVars, disk, modelVars, mainVars, loopVars, train_loss, entry_params,
                   valVars, reportVars, trace>>

\* Line 146
TrainBackward ==
    /\ pc = "t_backward"
    /\ grad' = Backward(grad, loss, batch)
    /\ ops' = Append(ops, <<"backward", idx>>)
    /\ pc' = "t_step"
    /\ UNCHANGED <<inputVars, disk, modelVars, mainVars, loopVars, train_loss, entry_params,
                   valVars, reportVars, trace>>

\* Mutant of TrainStep: a batch whose loss is not finite is skipped.
TrainStep_SkipNonFinite ==
    /\ pc = "t_step"
    /\ params' = IF loss = NaN THEN params ELSE OptimizerStep(params, grad)
    /\ ops' = IF loss = NaN THEN ops ELSE Append(ops, <<"step", idx>>)
    /\ pc' = "t_iter"
    /\ UNCHANGED <<inputVars, disk, training, mainVars, loopVars, grad, train_loss,
                   entry_params, valVars, reportVars, trace>>

\* Line 147: the update is applied whatever the loss was.
TrainStep ==
    /\ pc = "t_step"
    /\ params' = OptimizerStep(params, grad)
    /\ ops' = Append(ops, <<"step", idx>>)
    /\ pc' = "t_iter"
    /\ UNCHANGED <<inputVars, disk, training, mainVars, loopVars, grad, train_loss,
                   entry_params, valVars, reportVars, trace>>

\* Mutant of AfterTrain: the epoch goes to its log lines without validating.
AfterTrain_SkipsValidate == "log"

\* Lines 100-101: main calls validate once train_one_epoch has returned.
AfterTrain == "v_enter"

\* Line 149, and the return to line 100.
TrainReturn ==
    /\ pc = "t_return"
    /\ train_loss' = MeanRound3(losses)
    /\ trace' = Append(trace, Event("train_end", epoch))
    /\ pc' = AfterTrain
    /\ UNCHANGED <<inputVars, disk, modelVars, mainVars, loopVars, grad, histVars,
                   valVars, reportVars>>

\* -------------------------------------------------------------- validate
\* Lines 152-160
ValEnter ==
    /\ pc = "v_enter"
    /\ training' = FALSE
    /\ losses' = <<>>
    /\ total_pred' = <<>>
    /\ total_labels' = <<>>
    /\ conf_matrix' = <<>>
    /\ idx' = 0
    /\ entry_params' = params
    /\ trace' = Append(trace, Event("validate_begin", epoch))
    /\ pc' = "v_iter"
    /\ UNCHANGED <<inputVars, disk, params, mainVars, batch, emotions, loss, grad,
                   train_loss, ops, val, visualized, reportVars>>

\* Line 161
ValIter ==
    /\ pc = "v_iter"
    /\ IF idx < Len(test_dataloader.batches)
       THEN /\ batch' = test_dataloader.batches[idx + 1]
            /\ idx' = idx + 1
            /\ pc' = "v_batch"
       ELSE /\ pc' = "v_metrics"
            /\ UNCHANGED <<batch, idx>>
    /\ UNCHANGED <<inputVars, disk, modelVars, mainVars, emotions, loss, losses,
                   trainVars, valVars, reportVars, trace>>

\* Mutant of ValBatch: the body of the training loop, update included.
ValBatch_Updates ==
    /\ pc = "v_batch"
    /\ emotions' = Forward(params, batch.image)
    /\ loss' = Criterion(emotions', batch.label)
    /\ losses' = Append(losses, loss')
    /\ total_pred' = Append(total_pred, Argmax(emotions'))
    /\ total_labels' = Append(total_labels, batch.label)
    /\ params' = OptimizerStep(params, Backward(0, loss', batch))
    /\ pc' = "v_iter"
    /\ UNCHANGED <<inputVars, disk, training, mainVars, idx, batch, trainVars,
                   conf_matrix, val, visualized, reportVars, trace>>

\* Lines 162-191: forward under no_grad, loss, argmax; nothing is updated.
ValBatch ==
    /\ pc = "v_batch"
    /\ emotions' = Forward(params, batch.image)
    /\ loss' = Criterion(emotions', batch.label)
    /\ losses' = Append(losses, loss')
    /\ total_pred' = Append(total_pred, Argmax(emotions'))
    /\ total_labels' = Append(total_labels, batch.label)
    /\ pc' = "v_iter"
    /\ UNCHANGED <<inputVars, disk, modelVars, mainVars, idx, batch, trainVars,
                   conf_matrix, val, visualized, reportVars, trace>>

RoundFrac(f) == Round3(f[1], f[2])

\* Lines 193-199: the metrics, the confusion matrix, then the rounding.
ValMetrics ==
    /\ pc = "v_metrics"
    /\ val' = [val_loss  |-> MeanRound3(losses),
               accuracy  |-> RoundFrac(AccuracyScore(total_labels, total_pred)),
               percision |-> RoundFrac(PrecisionScore(total_labels, total_pred)),
               recall    |-> RoundFrac(RecallScore(total_labels, total_pred))]
    /\ conf_matrix' = <<ConfusionMatrix(total_labels, total_pred)>>
    /\ pc' = "v_report"
    /\ UNCHANGED <<inputVars, disk, modelVars, mainVars, loopVars, trainVars, total_pred,
                   total_labels, visualized, reportVars, trace>>

\* Mutant of AfterValidate: the return of line 88 is missing.
AfterValidate_NoReturn(evaluate) == "log"

\* Lines 87-88 and 101-103: evaluation returns from main after validate; an
\* epoch goes on to its log lines.
AfterValidate(evaluate) == IF evaluate THEN "exit" ELSE "log"

\* Mutant of ShowMatrix: the matrix is shown after every validation pass.
ShowMatrix_Always(evaluate) == TRUE

\* Line 202: the matrix is shown only under --evaluate.
ShowMatrix(evaluate) == evaluate

\* Lines 201-206, and the return to line 88 (evaluation) or line 101 (training).
ValReport ==
    /\ pc = "v_report"
    /\ visualized' = IF ShowMatrix(args.evaluate) THEN Append(visualized, conf_matrix[1])
                     ELSE visualized
    /\ trace' = Append(trace, Event("validate_end", epoch))
    /\ pc' = AfterValidate(args.evaluate)
    /\ UNCHANGED <<inputVars, disk, modelVars, mainVars, loopVars, trainVars, total_pred,
                   total_labels, conf_matrix, val, reportVars>>

\* ------------------------------------------------- main, after validate
\* round(x, 3) of a value that is a number of thousandths.
ReRound(v) == Round3(v, 1000)

\* Lines 109-113: the five add_scalar calls, in order.
Scalars(tl, m, e) ==
    << [tag |-> "train_loss", value |-> tl,          step |-> e],
       [tag |-> "val_loss",   value |-> m.val_loss,  step |-> e],
       [tag |-> "percision",  value |-> m.percision, step |-> e],
       [tag |-> "recall",     value |-> m.recall,    step |-> e],
       [tag |-> "accuracy",   value |-> m.accuracy,  step |-> e] >>

\* Lines 103-113: rounding, the log lines and the scalar series.
LogEpoch ==
    /\ pc = "log"
    /\ metrics' = [val_loss  |-> ReRound(val.val_loss),
                   accuracy  |-> ReRound(val.accuracy),
                   percision |-> ReRound(val.percision),
                   recall    |-> ReRound(val.recall)]
    /\ log' = log \o << [line |-> "training",   epoch |-> epoch, value |-> train_loss],
                        [line |-> "validation", epoch |-> epoch, value |-> metrics'.val_loss],
                        [line |-> "Accuracy",   epoch |-> epoch, value |-> metrics'.accuracy] >>
    /\ writer' = writer \o Scalars(train_loss, metrics', epoch)
    /\ trace' = Append(trace, Event("log", epoch))
    /\ pc' = "save"
    /\ UNCHANGED <<inputVars, disk, modelVars, mainVars, loopVars, trainVars, valVars,
                   saved>>

\* Mutant of SaveDue: the frequency counted from 1, (epoch + 1) % savefreq.
SaveDue_OffByOne(e, freq) == PyMod(e + 1, freq) = 0

\* Line 115: epoch % args.savefreq == 0 (evaluated only for a non-zero savefreq).
SaveDue(e, freq) == PyMod(e, freq) = 0

\* Lines 115-123: the modulo raises ZeroDivisionError for savefreq 0.
SaveModel ==
    /\ pc = "save"
    /\ IF args.savefreq = 0
       THEN /\ pc' = "zero_division_error"
            /\ UNCHANGED <<disk, saved, trace>>
       ELSE IF SaveDue(epoch, args.savefreq)
       THEN /\ disk' = (epoch :> [mini_xception |-> params, epoch |-> epoch]) @@ disk
            /\ saved' = Append(saved, [file |-> epoch, mini_xception |-> params,
                                       epoch |-> epoch])
            /\ trace' = Append(trace, Event("save", epoch))
            /\ pc' = "for"
       ELSE /\ pc' = "for"
            /\ UNCHANGED <<disk, saved, trace>>
    /\ UNCHANGED <<inputVars, modelVars, mainVars, loopVars, trainVars, valVars, metrics,
                   log, writer>>

\* Line 124
WriterClose ==
    /\ pc = "close"
    /\ trace' = Append(trace, Event("close", range_next))
    /\ pc' = "exit"
    /\ UNCHANGED <<inputVars, disk, modelVars, mainVars, loopVars, trainVars, valVars,
                   reportVars>>

\* Lines 38-39 and 208-209: the script is started again with --resume on a
\* checkpoint the finished run wrote.
Rerun ==
    /\ pc = "exit"
    /\ ~args.evaluate
    /\ runs < MaxRuns
    /\ \E s \in 1..Len(saved) :
          args' = [args EXCEPT !.resume = TRUE, !.pretrained = saved[s].file]
    /\ runs' = runs + 1
    /\ pc' = "parse_args"
    /\ params' = 0 /\ training' = TRUE /\ grad' = 0
    /\ start_epoch' = 0 /\ range_next' = 0 /\ epoch' = 0
    /\ test_dataloader' = [split |-> "val", batches |-> <<>>]
    /\ idx' = 0 /\ batch' = NoBatch /\ emotions' = 0 /\ loss' = 0 /\ losses' = <<>>
    /\ train_loss' = 0
    /\ total_pred' = <<>> /\ total_labels' = <<>> /\ conf_matrix' = <<>>
    /\ val' = NoMetrics /\ metrics' = NoMetrics
    /\ log' = <<>> /\ writer' = <<>> /\ visualized' = <<>> /\ saved' = <<>>
    /\ entry_params' = 0 /\ ops' = <<>> /\ trace' = <<>>
    /\ UNCHANGED <<dataset, disk>>

Next ==
    \/ ParseArgs
    \/ MainStart
    \/ LoadWeights
    \/ EvaluateBranch
    \/ TrainBranch
    \/ ForNext
    \/ TrainEnter
    \/ TrainIter
    \/ TrainForward
    \/ TrainLoss
    \/ TrainZeroGrad
    \/ TrainBackward
    \/ TrainStep
    \/ TrainReturn
    \/ ValEnter
    \/ ValIter
    \/ ValBatch
    \/ ValMetrics
    \/ ValReport
    \/ LogEpoch
    \/ SaveModel
    \/ WriterClose
    \/ Rerun

Spec == Init /\ [][Next]_vars

\* The interpreter runs the script to its end: no step waits on anything.
FairSpec == InitArgs /\ [][Next]_vars /\ WF_vars(Next)

\* ================================================================ claims
TrainPcs == {"t_iter", "t_forward", "t_loss", "t_zero_grad", "t_backward", "t_step", "t_return"}
ValPcs == {"v_iter", "v_batch", "v_metrics", "v_report"}
BeforeLoop == {"parse_args", "usage_error", "main", "load", "load_error", "mode"}

IsTrainBegin(e) == e.ev = "train_begin"
IsValidateEnd(e) == e.ev = "validate_end"
IsLoad(e) == e.ev = "load"

\* The epochs whose training pass has started, in order.
Executed ==
    LET begun == SelectSeq(trace, IsTrainBegin)
    IN  [i \in 1..Len(begun) |-> begun[i].epoch]

ExecutedSet == {Executed[i] : i \in 1..Len(Executed)}

\* An executed epoch whose last statement (the conditional save) is behind it.
Finished(e) == e \in ExecutedSet /\ (e # epoch \/ pc \in {"for", "close", "exit"})

SavesOf(e) == Cardinality({i \in 1..Len(saved) : saved[i].file = e})

Multiple(e, n) == n # 0 /\ \E k \in 0..e : k * Abs(n) = e

\* C1: in training mode an epoch that has run to its end has written exactly one
\* checkpoint, weights_epoch_<epoch>, when the epoch is a multiple of savefreq, and
\* none otherwise; nothing else is ever written.
C1_SaveIffMultiple ==
    ~args.evaluate =>
        /\ \A i \in 1..Len(saved) :
              /\ saved[i].file \in ExecutedSet
              /\ saved[i].epoch = saved[i].file
              /\ saved[i].file \in DOMAIN disk
        /\ \A e \in ExecutedSet :
              SavesOf(e) = IF Finished(e) /\ Multiple(e, args.savefreq) THEN 1 ELSE 0

C1_Witness ==
    /\ ~args.evaluate /\ ~args.resume /\ pc = "exit"
    /\ args.savefreq = 2
    /\ Executed = <<0, 1, 2>>
    /\ SavesOf(0) = 1 /\ SavesOf(1) = 0 /\ SavesOf(2) = 1

\* The epoch counter read from the checkpoint at load time.
LoadedEpoch == SelectSeq(trace, IsLoad)[1].epoch

\* C2: in training mode the first epoch is 0, or the stored epoch of the loaded
\* checkpoint plus one under --resume; epochs run one at a time in increasing
\* order, each once and all below the limit; main leaves the loop exactly when
\* the counter has reached the limit; a checkpoint saved at epoch E stores E, so
\* resuming from it starts at E + 1.
C2_EpochSequence ==
    (~args.evaluate /\ pc \notin BeforeLoop) =>
        LET first == IF args.resume THEN LoadedEpoch + 1 ELSE 0
        IN  /\ start_epoch = first
            /\ \A i \in 1..Len(Executed) : Executed[i] = first + i - 1
            /\ \A i \in 1..Len(Executed) : Executed[i] < args.epochs
            /\ pc \in {"close", "exit"} =>
                  Len(Executed) = IF first < args.epochs THEN args.epochs - first ELSE 0
            /\ \A i \in 1..Len(saved) : disk[saved[i].file].epoch = saved[i].file
            /\ runs > 1 => first = args.pretrained + 1

C2_Witness ==
    /\ runs = 2 /\ pc = "exit" /\ ~args.evaluate
    /\ args.pretrained = 1
    /\ start_epoch = 2
    /\ Executed = <<2>>

\* The phase event that may follow another inside a training run.
Follows(a, b) ==
    \/ a.ev = "load" /\ b.ev \in {"train_begin", "close"}
    \/ a.ev = "train_begin" /\ b = Event("train_end", a.epoch)
    \/ a.ev = "train_end" /\ b = Event("validate_begin", a.epoch)
    \/ a.ev = "validate_begin" /\ b = Event("validate_end", a.epoch)
    \/ a.ev = "validate_end" /\ b = Event("log", a.epoch)
    \/ a.ev = "log" /\ b = Event("save", a.epoch)
    \/ a.ev = "log" /\ b.ev = "close"
    \/ a.ev = "log" /\ b.ev = "train_begin" /\ b.epoch > a.epoch
    \/ a.ev = "save" /\ b.ev = "close"
    \/ a.ev = "save" /\ b.ev = "train_begin" /\ b.epoch > a.epoch

Last(t) == t[Len(t)]

\* C3: in training mode the phases of an epoch follow one another as train,
\* validate, log/export, conditional save; every step of a pass lies between the
\* begin and the end of its own phase, and the next epoch starts only after the
\* last phase of the one before.
C3_PhaseOrder ==
    ~args.evaluate =>
        /\ \A i \in 1..(Len(trace) - 1) : Follows(trace[i], trace[i + 1])
        /\ pc \in TrainPcs => trace # <<>> /\ Last(trace) = Event("train_begin", epoch)
        /\ pc \in ValPcs => trace # <<>> /\ Last(trace) = Event("validate_begin", epoch)
        /\ pc = "v_enter" => trace # <<>> /\ Last(trace) = Event("train_end", epoch)
        /\ pc = "log" => trace # <<>> /\ Last(trace) = Event("validate_end", epoch)
        /\ pc = "save" => trace # <<>> /\ Last(trace) = Event("log", epoch)
        /\ pc = "t_enter" /\ trace # <<>> => Last(trace).ev \in {"load", "log", "save"}

C3_Witness ==
    /\ ~args.evaluate /\ pc = "exit"
    /\ \E i \in 1..Len(trace) : trace[i] = Event("save", 0)
    /\ \E i \in 1..(Len(trace) - 1) :
          trace[i] = Event("log", 1) /\ trace[i + 1] = Event("train_begin", 2)

\* What an evaluation run has not done, and what it has done once it ends.
C4_EvaluateState ==
    args.evaluate =>
        /\ ops = <<>> /\ grad = 0 /\ saved = <<>> /\ writer = <<>> /\ log = <<>>
        /\ pc \notin TrainPcs \cup {"t_enter", "for", "log", "save", "close"}
        /\ \A i \in 1..Len(trace) : trace[i].ev \in {"load", "validate_begin", "validate_end"}
        /\ Len(SelectSeq(trace, IsValidateEnd)) <= 1
        /\ (pc \in ValPcs \cup {"v_enter", "exit"}) =>
              /\ Len(SelectSeq(trace, IsLoad)) = 1
              /\ trace[1].ev = "load"
              /\ params = disk[args.pretrained].mini_xception
        /\ pc = "exit" => Len(SelectSeq(trace, IsValidateEnd)) = 1

\* C4: under --evaluate the run loads the checkpoint, validates once and ends: it
\* never trains, never updates the parameters and never saves, whatever --resume,
\* --epochs and the stored epoch are; once the checkpoint is loaded the run
\* reaches its end.
C4_EvaluateOnly ==
    /\ []C4_EvaluateState
    /\ (args.evaluate /\ pc = "mode") ~> (pc = "exit")

C4_Witness ==
    /\ args.evaluate /\ args.resume /\ pc = "exit"
    /\ args.epochs > LoadedEpoch + 1
    /\ Len(SelectSeq(trace, IsValidateEnd)) = 1

\* What validate returns for parameters p on the batch sequence bs, computed
\* from the whole sequence at once.
ExpectedVal(p, bs) ==
    LET score == [i \in 1..Len(bs) |-> Forward(p, bs[i].image)]
        ls == [i \in 1..Len(bs) |-> Criterion(score[i], bs[i].label)]
        preds == [i \in 1..Len(bs) |-> Argmax(score[i])]
        labels == [i \in 1..Len(bs) |-> bs[i].label]
    IN  [val_loss  |-> MeanRound3(ls),
         accuracy  |-> RoundFrac(AccuracyScore(labels, preds)),
         percision |-> RoundFrac(PrecisionScore(labels, preds)),
         recall    |-> RoundFrac(RecallScore(labels, preds))]

\* C5: validate leaves the parameters as it found them, and what it returns is
\* determined by those parameters and the batch sequence alone, so a second pass
\* with no training in between returns the same four numbers.
C5_ValidateReadOnly ==
    /\ pc \in ValPcs => params = entry_params
    /\ (pc = "log" \/ (args.evaluate /\ pc = "exit")) =>
          /\ params = entry_params
          /\ val = ExpectedVal(entry_params, test_dataloader.batches)

C5_Witness ==
    /\ ~args.evaluate /\ pc = "log"
    /\ Len(test_dataloader.batches) = 1
    /\ val.val_loss > 0 /\ val.accuracy = 1000
    /\ OptimizerStep(params, Backward(0, loss, batch)) # params

\* C6 as stated: whatever --mode is, evaluation ends having validated on a split,
\* the training split for a value other than val and test.
C6_FallbackToTrain ==
    (args.evaluate /\ args.mode \notin ModeChoices /\ pc \in {"exit", "usage_error"}) =>
        /\ test_dataloader.split = "train"
        /\ Len(SelectSeq(trace, IsValidateEnd)) = 1

\* C6 (amended): --mode test evaluates on the test split and --mode val on the
\* validation split; any other value is refused when the command line is parsed,
\* before main runs, so the training-split branch is never taken.
C6_ModeSelectsSplit ==
    /\ (args.evaluate /\ pc \in ValPcs \cup {"v_enter", "exit"}) =>
          /\ args.mode \in ModeChoices
          /\ test_dataloader.split = args.mode
          /\ test_dataloader.batches = dataset[args.mode]
    /\ (args.evaluate /\ pc = "exit") =>
          val = ExpectedVal(params, dataset[args.mode])
    /\ (args.mode \notin ModeChoices /\ pc # "parse_args") =>
          /\ pc = "usage_error"
          /\ trace = <<>>
          /\ test_dataloader.batches = <<>>
    /\ test_dataloader.split # "train"

C6_Witness ==
    /\ args.evaluate /\ args.mode = "test" /\ pc = "exit"
    /\ test_dataloader.split = "test"
    /\ Len(SelectSeq(trace, IsValidateEnd)) = 1

\* One batch of training: the update computed from a cleared gradient.
StepOn(p, b) == OptimizerStep(p, Backward(0, Criterion(Forward(p, b.image), b.label), b))

RECURSIVE ParamsAfter(_, _)
ParamsAfter(p, bs) == IF bs = <<>> THEN p ELSE ParamsAfter(StepOn(p, Head(bs)), Tail(bs))

RECURSIVE ExpectedLosses(_, _)
ExpectedLosses(p, bs) ==
    IF bs = <<>> THEN <<>>
    ELSE <<Criterion(Forward(p, Head(bs).image), Head(bs).label)>>
            \o ExpectedLosses(StepOn(p, Head(bs)), Tail(bs))

StepNames == <<"batch", "forward", "loss", "zero_grad", "backward", "step">>

\* The steps of k whole batches, in order.
FullOps(k) ==
    [j \in 1..(Len(StepNames) * k) |->
        <<StepNames[((j - 1) % Len(StepNames)) + 1], ((j - 1) \div Len(StepNames)) + 1>>]

\* Steps already taken on the batch in hand.
Position(p) ==
    CASE p = "t_forward" -> 1
      [] p = "t_loss" -> 2
      [] p = "t_zero_grad" -> 3
      [] p = "t_backward" -> 4
      [] p = "t_step" -> 5
      [] OTHER -> 0

\* C7: train_one_epoch draws the batches once each in the provider's order, takes
\* forward, loss, zero_grad, backward, step on each in that order, and applies
\* exactly one update per batch before the next batch is drawn, a batch with a
\* non-finite loss included.
C7_BatchSteps ==
    pc \in TrainPcs =>
        LET data == dataset["train"]
            done == IF Position(pc) = 0 THEN idx ELSE idx - 1
        IN  /\ idx <= Len(data)
            /\ Position(pc) # 0 => batch = data[idx]
            /\ Len(ops) = Len(StepNames) * done + Position(pc)
            /\ ops = SubSeq(FullOps(Len(data)), 1, Len(ops))
            /\ params = ParamsAfter(entry_params, SubSeq(data, 1, done))
            /\ pc = "t_return" => idx = Len(data)

C7_Witness ==
    /\ pc = "t_return"
    /\ Len(dataset["train"]) = 2
    /\ losses[1] = NaN
    /\ ops = FullOps(2)

\* C8: the value train_one_epoch returns is the mean of the per-batch losses, one
\* per batch in yield order, each taken before that batch's update, rounded to the
\* nearest thousandth.
C8_TrainLossIsRoundedMean ==
    (~args.evaluate /\ pc = "v_enter") =>
        LET L == ExpectedLosses(entry_params, dataset["train"])
            den == Len(L) * LossScale
        IN  /\ losses = L
            /\ IF HasNaN(L) THEN train_loss = NaN
               ELSE 2 * Abs(1000 * SumSeq(L) - train_loss * den) <= den

C8_Witness ==
    /\ ~args.evaluate /\ pc = "v_enter"
    /\ Len(losses) = 2 /\ ~HasNaN(losses)
    /\ losses[1] # losses[2]
    /\ train_loss * Len(losses) * LossScale > 1000 * SumSeq(losses)

PointsAt(e) == SelectSeq(writer, LAMBDA w : w.step = e)

\* C9: every epoch that has been logged has one point in each of the five series
\* train_loss, val_loss, precision, recall and accuracy, and in no other.
C9_FiveNamedSeries ==
    ~args.evaluate =>
        \A e \in ExecutedSet :
            (e # epoch \/ pc \in {"save", "zero_division_error", "for", "close", "exit"}) =>
                /\ Len(PointsAt(e)) = 5
                /\ {PointsAt(e)[i].tag : i \in 1..Len(PointsAt(e))}
                      = {"train_loss", "val_loss", "precision", "recall", "accuracy"}

\* C10 as stated: a validation pass of a training run neither computes the
\* confusion matrix nor forwards it.
C10_MatrixOnlyInEvaluation ==
    ~args.evaluate => (conf_matrix = <<>> /\ visualized = <<>>)

RowSumsToOne(m) ==
    \A l \in DOMAIN m :
        LET total == SumSeq([i \in 1..Cardinality(DOMAIN m) |->
                               m[l][CHOOSE p \in DOMAIN m :
                                      Cardinality({q \in DOMAIN m : q < p}) = i - 1][1]])
        IN  \A p \in DOMAIN m : m[l][p][2] = IF total = 0 THEN 1 ELSE total

\* C10 (amended): every validation pass computes the row-normalized confusion
\* matrix; it is forwarded to the visualizer only in an evaluation run, once, and
\* never in a training run.
C10_MatrixForwardedOnlyInEvaluation ==
    /\ pc \in {"v_report", "log"} =>
          /\ conf_matrix = <<ConfusionMatrix(total_labels, total_pred)>>
          /\ RowSumsToOne(conf_matrix[1])
    /\ ~args.evaluate => visualized = <<>>
    /\ args.evaluate => visualized = IF pc = "exit" THEN conf_matrix ELSE <<>>
    /\ (args.evaluate /\ pc = "exit") => Len(visualized) = 1

C10_Witness ==
    /\ ~args.evaluate /\ pc = "log"
    /\ conf_matrix # <<>>
    /\ visualized = <<>>

====
